---------------------------- MODULE Spec2Model ----------------------------
(***************************************************************************)
(* Jasper (pytorchcv/models/jasper.py): length-aware masked convolutions,  *)
(* the blocks built from them, the Jasper model and its factory.           *)
(*                                                                         *)
(* Tensors.  A feature tensor of shape (batch, channels, time) is the      *)
(* record [batch, channels, time, val] with val[b][t] the value that ALL   *)
(* `channels` channels hold at sample b, time t (1-based): inputs are      *)
(* drawn equal across channels and every weight of a convolution equals    *)
(* 1 / (in_channels / groups), so every tensor in a forward pass is equal  *)
(* across channels.  Channel counts are carried exactly.  The channel      *)
(* shuffle, which moves channels, works on tensors with the channel axis   *)
(* written out (XTensor below).  Values are integers saturating at MaxVal. *)
(*                                                                         *)
(* Modules are records carrying the attributes their constructors set.     *)
(* Dropout rates are in tenths (2 is 0.2).  Forward passes are in          *)
(* evaluation mode: dropout is the identity and batch normalisation is an  *)
(* affine map, here the shift by the layer's learned bias bn_beta.         *)
(***************************************************************************)
EXTENDS Integers, Sequences, FiniteSets, TLC

VARIABLES
    call,       \* the constructor call being run: its arguments
    net,        \* the constructed Jasper module (None before construction)
    pc,         \* "new" | "forward" | "done" | "error"
    stage,      \* index into net.features of the next child to apply
    x,          \* the feature tensor travelling through Jasper.forward
    x_len,      \* the second path: a length vector or the dense-residual tuple
    x_in,       \* the (x, x_len) the stage just applied received
    conv_log,   \* the MaskConv1d.forward calls made by the stage just applied
    applied,    \* names of the children applied so far, in order
    bn_beta,    \* learned shift of the batch-normalisation layers
    input,      \* the (x, x_len) Jasper.forward was called with
    lay         \* state of the single-layer harness (see the layer section)

vars ==
    <<call, net, pc, stage, x, x_len, x_in, conv_log, applied, bn_beta, input,
      lay>>

\* ---------------------------------------------------------------- bounds
MaxVal == 3         \* tensor values saturate here
MaxT == 3           \* longest input time dimension
MaxBatch == 2       \* largest batch
MaxUnits == 2       \* most units of a directly constructed model
MaxKernel == 3      \* largest kernel of a directly constructed layer or model
MaxStride == 2      \* largest stride of a directly constructed layer
MaxPad == 2         \* largest padding of a directly constructed layer
MaxDil == 2         \* largest dilation of a directly constructed layer
MaxCh == 6          \* most channels of a directly constructed shuffle layer

None == [cls |-> "NoneType"]

Min(a, b) == IF a <= b THEN a ELSE b
Max(a, b) == IF a >= b THEN a ELSE b
Clip(v) == Min(v, MaxVal)

\* ---------------------------------------------------------------- tensors
Tensor(B, C, T, val) == [batch |-> B, channels |-> C, time |-> T, val |-> val]

\* x[b, :, t] for a 0-based time index t; 0 in the zero padding outside.
At(t, b, i) == IF i >= 0 /\ i < t.time THEN t.val[b][i + 1] ELSE 0

RECURSIVE SumTaps(_, _, _, _, _, _)
\* sum over taps j..k-1 of the input at start + j*dilation
SumTaps(t, b, start, dil, k, j) ==
    IF j >= k THEN 0
    ELSE At(t, b, start + j * dil) + SumTaps(t, b, start, dil, k, j + 1)

\* ------------------------------------------------- torch.nn.functional
\* F.conv1d: the sliding-window convolution with zero padding on both sides.
\* Output position o (0-based) exists iff its window [o*s, o*s + d*(k-1)]
\* lies inside the padded input; otherwise torch raises.
WindowStarts(conv, n) ==
    {o \in 0..(n + 2 * conv.padding) :
        o * conv.stride + conv.dilation * (conv.kernel_size - 1) + 1
            <= n + 2 * conv.padding}

\* The time dimension F.conv1d gives an input of time dimension n.
OutTime(conv, n) == Cardinality(WindowStarts(conv, n))

F_conv1d(t, conv) ==
    LET k == conv.kernel_size
        s == conv.stride
        p == conv.padding
        d == conv.dilation
        To == OutTime(conv, t.time)
        b0 == IF conv.bias THEN (IF conv.binit = "zero" THEN 0 ELSE 1) ELSE 0
    IN  IF t.channels # conv.in_channels \/ To = 0
        THEN [ok |-> FALSE, x |-> t]
        ELSE [ok |-> TRUE,
              x |-> Tensor(t.batch, conv.out_channels, To,
                     [b \in 1..t.batch |-> [o \in 1..To |->
                        Clip(SumTaps(t, b, (o - 1) * s - p, d, k, 0) + b0)]])]

\* nn.BatchNorm1d in evaluation mode
BatchNorm1d_forward(bn, t) ==
    IF t.channels # bn.num_features
    THEN [ok |-> FALSE, x |-> t]
    ELSE [ok |-> TRUE,
          x |-> [t EXCEPT !.val = [b \in 1..t.batch |-> [i \in 1..t.time |->
                    Clip(t.val[b][i] + bn_beta)]]]]

ReLU(t) == [t EXCEPT !.val = [b \in 1..t.batch |-> [i \in 1..t.time |->
                Max(0, t.val[b][i])]]]

\* nn.Dropout in evaluation mode
Dropout(t) == t

\* x + y with torch broadcasting: sizes agree or one of them is 1.
BroadcastOk(m, n) == m = n \/ m = 1 \/ n = 1
Add(a, c) ==
    IF ~(BroadcastOk(a.batch, c.batch) /\ BroadcastOk(a.channels, c.channels)
         /\ BroadcastOk(a.time, c.time))
    THEN [ok |-> FALSE, x |-> a]
    ELSE LET B == Max(a.batch, c.batch)
             T == Max(a.time, c.time)
             Ix(t, n, i) == IF n = 1 THEN 1 ELSE i
         IN [ok |-> TRUE,
             x |-> Tensor(B, Max(a.channels, c.channels), T,
                    [b \in 1..B |-> [i \in 1..T |->
                        Clip(a.val[Ix(a, a.batch, b)][Ix(a, a.time, i)]
                             + c.val[Ix(c, c.batch, b)][Ix(c, c.time, i)])]])]

\* ---------------------------------------------------------------- errors
\* A raised ValueError, with the class whose constructor raised it.
ValueError(by) == [cls |-> "ValueError", by |-> by]
IsError(m) == m.cls = "ValueError"

\* nn.Conv1d.__init__ (torch) rejects channel counts the groups do not divide.
ConvNdValid(in_channels, out_channels, groups) ==
    in_channels % groups = 0 /\ out_channels % groups = 0

\* ---------------------------------------------------------------- conv1d1
conv1d1(in_channels, out_channels, stride, groups, bias) ==
    IF ~ConvNdValid(in_channels, out_channels, groups)
    THEN ValueError("torch.nn.Conv1d")
    ELSE
    [cls |-> "Conv1d", in_channels |-> in_channels, out_channels |-> out_channels,
     kernel_size |-> 1, stride |-> stride, padding |-> 0, dilation |-> 1,
     groups |-> groups, bias |-> bias,
     winit |-> "default", binit |-> IF bias THEN "default" ELSE "none"]

\* ---------------------------------------------------------------- MaskConv1d
MaskConv1d(in_channels, out_channels, kernel_size, stride, padding, dilation, groups, bias) ==
    IF ~ConvNdValid(in_channels, out_channels, groups)
    THEN ValueError("torch.nn.Conv1d")
    ELSE
    [cls |-> "MaskConv1d", in_channels |-> in_channels,
     out_channels |-> out_channels, kernel_size |-> kernel_size,
     stride |-> stride, padding |-> padding, dilation |-> dilation,
     groups |-> groups, bias |-> bias, use_mask |-> TRUE,
     winit |-> "default", binit |-> IF bias THEN "default" ELSE "none"]

\* (mutant: the mask starts one position late, > for >=)
MaskAt_late(xl, b, i) == i > xl[b]

\* mask = arange(max_len).expand(len(x_len), max_len) >= x_len.unsqueeze(1)
MaskAt(xl, b, i) == i >= xl[b]

\* x.masked_fill(mask.unsqueeze(1), 0): the mask is broadcast over channels.
MaskedFill(t, xl) ==
    [t EXCEPT !.val = [b \in 1..t.batch |-> [i \in 1..t.time |->
        IF MaskAt(xl, b, i - 1) THEN 0 ELSE t.val[b][i]]]]

\* (mutant: the dilation left out of the length update)
NewLen_nodil(conv, n) ==
    (n + 2 * conv.padding - (conv.kernel_size - 1) - 1) \div conv.stride + 1

\* (mutant: division truncating toward zero instead of flooring)
NewLen_trunc(conv, n) ==
    LET a == n + 2 * conv.padding - conv.dilation * (conv.kernel_size - 1) - 1
    IN  (IF a >= 0 THEN a \div conv.stride ELSE -((-a) \div conv.stride)) + 1

\* the length update of MaskConv1d.forward; // floors
NewLen(conv, n) ==
    (n + 2 * conv.padding - conv.dilation * (conv.kernel_size - 1) - 1)
        \div conv.stride + 1

\* return x, x_len: [ok, x, x_len, log], where log records the call: the
\* tensor received, the tensor convolved and the lengths before and after.
MaskConv1d_return(conv, t, xl, masked, nl, out) ==
    [ok |-> out.ok, x |-> out.x, x_len |-> nl,
     log |-> <<[conv |-> conv, pre |-> t, len |-> xl, conv_in |-> masked,
                out_time |-> out.x.time, out_len |-> nl, ok |-> out.ok]>>]

\* x = F.conv1d(input=x, ...) on the masked input
MaskConv1d_conv(conv, t, xl, masked, nl) ==
    MaskConv1d_return(conv, t, xl, masked, nl, F_conv1d(masked, conv))

\* MaskConv1d.forward(x, x_len)
MaskConv1d_forward(conv, t, xl) ==
    MaskConv1d_conv(conv, t, xl,
        IF conv.use_mask THEN MaskedFill(t, xl) ELSE t,
        IF conv.use_mask THEN [b \in 1..Len(xl) |-> NewLen(conv, xl[b])]
        ELSE xl)

mask_conv1d1(in_channels, out_channels, stride, groups, bias) ==
    MaskConv1d(in_channels, out_channels, 1, stride, 0, 1, groups, bias)


\* ---------------------------------------------------------------- MaskConvBlock1d
\* activation is "ReLU" (the default lambda) or "None".
MaskConvBlock1d(in_channels, out_channels, kernel_size, stride, padding, dilation, groups, bias, use_bn, bn_eps, activation, dropout_rate) ==
    IF ~ConvNdValid(in_channels, out_channels, groups)
    THEN ValueError("torch.nn.Conv1d")
    ELSE
    [cls |-> "MaskConvBlock1d",
     activate |-> (activation # "None"),
     use_bn |-> use_bn,
     use_dropout |-> (dropout_rate # 0),
     conv |-> MaskConv1d(in_channels, out_channels, kernel_size, stride,
                         padding, dilation, groups, bias),
     bn |-> IF use_bn
            THEN [cls |-> "BatchNorm1d", num_features |-> out_channels,
                  eps |-> bn_eps]
            ELSE None,
     activ |-> IF activation # "None" THEN [cls |-> activation] ELSE None,
     dropout |-> IF dropout_rate # 0
                 THEN [cls |-> "Dropout", p |-> dropout_rate] ELSE None]

\* conv, then bn, activation and dropout, each only if the block has it.
PostConv(blk, c) ==
    LET n == IF c.ok /\ blk.use_bn THEN BatchNorm1d_forward(blk.bn, c.x)
             ELSE [ok |-> c.ok, x |-> c.x]
        a == IF n.ok /\ blk.activate THEN ReLU(n.x) ELSE n.x
        o == IF n.ok /\ blk.use_dropout THEN Dropout(a) ELSE a
    IN  [ok |-> n.ok, x |-> o, x_len |-> c.x_len, log |-> c.log]

MaskConvBlock1d_forward(blk, t, xl) ==
    PostConv(blk, MaskConv1d_forward(blk.conv, t, xl))

\* (mutant: the 1x1 block built without batch normalisation)
mask_conv1d1_block_nobn(in_channels, out_channels, stride, padding, bn_eps, dropout_rate, activation) ==
    MaskConvBlock1d(in_channels, out_channels, 1, stride, padding, 1, 1, FALSE,
                    FALSE, bn_eps, activation, dropout_rate)

mask_conv1d1_block(in_channels, out_channels, stride, padding, bn_eps, dropout_rate, activation) ==
    MaskConvBlock1d(in_channels, out_channels, 1, stride, padding, 1, 1, FALSE,
                    TRUE, bn_eps, activation, dropout_rate)

\* ---------------------------------------------------------------- ChannelShuffle1d
\* (mutant: the operands of the divisibility test swapped)
ChannelShuffle1d_swapped(channels, groups) ==
    IF groups % channels # 0
    THEN ValueError("ChannelShuffle1d")
    ELSE [cls |-> "ChannelShuffle1d", groups |-> groups]

ChannelShuffle1d(channels, groups) ==
    IF channels % groups # 0
    THEN ValueError("ChannelShuffle1d")
    ELSE [cls |-> "ChannelShuffle1d", groups |-> groups]

\* A tensor with the channel axis written out: val[b][c][t].
XTensor(B, C, T, val) == [batch |-> B, channels |-> C, time |-> T, val |-> val]

\* x.view(batch, groups, channels_per_group, seq_len): row-major regrouping
View4(t, G, CPG) ==
    [b \in 1..t.batch |-> [g \in 1..G |-> [i \in 1..CPG |->
        t.val[b][(g - 1) * CPG + i]]]]

\* (mutant: the transposition also reverses the order of the groups)
Transpose12_flip(v, B, G, CPG) ==
    [b \in 1..B |-> [i \in 1..CPG |-> [g \in 1..G |-> v[b][G + 1 - g][i]]]]

\* torch.transpose(x, 1, 2).contiguous()
Transpose12(v, B, G, CPG) ==
    [b \in 1..B |-> [i \in 1..CPG |-> [g \in 1..G |-> v[b][g][i]]]]

\* x.view(batch, channels, seq_len) of a (batch, D1, D2, seq_len) tensor
View3(v, B, D1, D2) ==
    [b \in 1..B |-> [c \in 1..(D1 * D2) |->
        v[b][((c - 1) \div D2) + 1][((c - 1) % D2) + 1]]]

\* ChannelShuffle1d.forward: [ok, x]; view raises when the sizes do not fit.
ChannelShuffle1d_forward(sh, t) ==
    LET channels_per_group == t.channels \div sh.groups
    IN  IF sh.groups * channels_per_group # t.channels
        THEN [ok |-> FALSE, x |-> t]
        ELSE [ok |-> TRUE,
              x |-> [t EXCEPT !.val =
                      View3(Transpose12(View4(t, sh.groups, channels_per_group),
                                        t.batch, sh.groups, channels_per_group),
                            t.batch, channels_per_group, sh.groups)]]

\* The channel axis of a channel-uniform tensor written out, and back.
Explicit(t) ==
    XTensor(t.batch, t.channels, t.time,
            [b \in 1..t.batch |-> [c \in 1..t.channels |-> t.val[b]]])
Uniform(xt) ==
    Tensor(xt.batch, xt.channels, xt.time,
           [b \in 1..xt.batch |-> xt.val[b][1]])

\* ---------------------------------------------------------------- DwsConvBlock1d
DwsConvBlock1d(in_channels, out_channels, kernel_size, stride, padding, dilation, groups, bias, use_bn, bn_eps, activation, dropout_rate) ==
    LET shuffle == IF groups > 1 THEN ChannelShuffle1d(out_channels, groups)
                   ELSE None
    IN  IF ~ConvNdValid(in_channels, out_channels, groups)
        THEN ValueError("torch.nn.Conv1d")
        ELSE IF IsError(shuffle) THEN shuffle
        ELSE
        [cls |-> "DwsConvBlock1d",
         activate |-> (activation # "None"),
         use_bn |-> use_bn,
         use_dropout |-> (dropout_rate # 0),
         use_channel_shuffle |-> (groups > 1),
         dw_conv |-> MaskConv1d(in_channels, in_channels, kernel_size, stride,
                                padding, dilation, in_channels, bias),
         pw_conv |-> mask_conv1d1(in_channels, out_channels, 1, groups, bias),
         shuffle |-> shuffle,
         bn |-> IF use_bn
                THEN [cls |-> "BatchNorm1d", num_features |-> out_channels,
                      eps |-> bn_eps]
                ELSE None,
         activ |-> IF activation # "None" THEN [cls |-> activation] ELSE None,
         dropout |-> IF dropout_rate # 0
                     THEN [cls |-> "Dropout", p |-> dropout_rate] ELSE None]

\* x = self.shuffle(x) if the block has a shuffle, then bn, activ, dropout
DwsConvBlock1d_shuffled(blk, dw, pw, sh) ==
    PostConv(blk, [ok |-> sh.ok, x |-> Uniform(sh.x), x_len |-> pw.x_len,
                   log |-> dw.log \o pw.log])

DwsConvBlock1d_shuffle(blk, dw, pw) ==
    DwsConvBlock1d_shuffled(blk, dw, pw,
        IF pw.ok /\ blk.use_channel_shuffle
        THEN ChannelShuffle1d_forward(blk.shuffle, Explicit(pw.x))
        ELSE [ok |-> pw.ok, x |-> Explicit(pw.x)])

\* x, x_len = self.pw_conv(x, x_len)
DwsConvBlock1d_pw(blk, dw) ==
    DwsConvBlock1d_shuffle(blk, dw,
        IF dw.ok THEN MaskConv1d_forward(blk.pw_conv, dw.x, dw.x_len)
        ELSE [dw EXCEPT !.log = <<>>])

\* DwsConvBlock1d.forward: x, x_len = self.dw_conv(x, x_len), then the rest
DwsConvBlock1d_forward(blk, t, xl) ==
    DwsConvBlock1d_pw(blk, MaskConv1d_forward(blk.dw_conv, t, xl))

\* block(x, x_len) for either block class
Block_forward(blk, t, xl) ==
    IF blk.cls = "DwsConvBlock1d" THEN DwsConvBlock1d_forward(blk, t, xl)
    ELSE MaskConvBlock1d_forward(blk, t, xl)

\* ------------------------------------------------ common.py containers
\* The second path of a dual-path call: a length vector (tuple = FALSE) or the
\* dense-residual tuple (x_len, y, y_len).  A y of None is the empty list.
LenVec(v) == [tuple |-> FALSE, len |-> v, y |-> <<>>, y_len |-> <<>>]
DrTuple(v, y, y_len) == [tuple |-> TRUE, len |-> v, y |-> y, y_len |-> y_len]

RECURSIVE DualPathSequential_forward(_, _, _, _)
SeqJoin(r, rest) == [rest EXCEPT !.log = r.log \o @]
SeqRest(blocks, i, r) ==
    IF ~r.ok THEN r
    ELSE SeqJoin(r, DualPathSequential_forward(blocks, i + 1, r.x, r.x_len))

\* for module in modules[i..]: x, x_len = module(x, x_len)
DualPathSequential_forward(blocks, i, t, xl) ==
    IF i > Len(blocks) THEN [ok |-> TRUE, x |-> t, x_len |-> xl, log |-> <<>>]
    ELSE SeqRest(blocks, i, Block_forward(blocks[i], t, xl))

RECURSIVE DualPathParallelConcurent_forward(_, _, _, _)
ParJoin(r, rest) ==
    [ok |-> rest.ok, xs |-> <<r.x>> \o rest.xs,
     lens |-> <<r.x_len>> \o rest.lens, log |-> r.log \o rest.log]
ParRest(mods, i, ys, ylens, r) ==
    IF ~r.ok THEN [ok |-> FALSE, xs |-> <<>>, lens |-> <<>>, log |-> r.log]
    ELSE ParJoin(r, DualPathParallelConcurent_forward(mods, i + 1, ys, ylens))

\* for module, x1i, x2i in zip(modules, x1, x2): collect module(x1i, x2i)
DualPathParallelConcurent_forward(mods, i, ys, ylens) ==
    IF i > Min(Len(mods), Min(Len(ys), Len(ylens)))
    THEN [ok |-> TRUE, xs |-> <<>>, lens |-> <<>>, log |-> <<>>]
    ELSE ParRest(mods, i, ys, ylens, Block_forward(mods[i], ys[i], ylens[i]))

SameShape(a, c) ==
    a.batch = c.batch /\ a.channels = c.channels /\ a.time = c.time

RECURSIVE SumList(_, _)
SumTwo(a, rest) ==
    [rest EXCEPT !.val = [b \in 1..rest.batch |-> [j \in 1..rest.time |->
        Clip(a.val[b][j] + rest.val[b][j])]]]
\* torch.stack(tuple(xs), dim=1).sum(dim=1): equal shapes, elementwise sum
SumList(xs, i) ==
    IF i = Len(xs) THEN xs[i] ELSE SumTwo(xs[i], SumList(xs, i + 1))

StackSum(xs) ==
    IF Len(xs) = 0 \/ \E i \in 1..Len(xs) : ~SameShape(xs[i], xs[1])
    THEN [ok |-> FALSE, x |-> None, log |-> <<>>]
    ELSE [ok |-> TRUE, x |-> SumList(xs, 1), log |-> <<>>]

\* ---------------------------------------------------------------- JasperUnit
\* (mutant: (kernel_size - 1) // 2)
SamePadding_minus(kernel_size) == (kernel_size - 1) \div 2

\* padding=(kernel_size // 2)
SamePadding(kernel_size) == kernel_size \div 2

\* (mutant: 2 * (kernel // 2) - 1, the division taken first)
FinalPadding_divfirst(kernel_size) == 2 * (kernel_size \div 2) - 1

\* padding=(2 * kernel_sizes[-2] // 2 - 1)
FinalPadding(kernel_size) == ((2 * kernel_size) \div 2) - 1

BlockClass(use_dw, in_channels, out_channels, kernel_size, stride, padding, dilation, bn_eps, activation, dropout_rate) ==
    IF use_dw
    THEN DwsConvBlock1d(in_channels, out_channels, kernel_size, stride, padding,
                        dilation, 1, FALSE, TRUE, bn_eps, activation,
                        dropout_rate)
    ELSE MaskConvBlock1d(in_channels, out_channels, kernel_size, stride,
                         padding, dilation, 1, FALSE, TRUE, bn_eps, activation,
                         dropout_rate)

\* in_channels is a list of channel counts when use_dr, else one count.
JasperUnit(in_channels, out_channels, kernel_size, bn_eps, dropout_rate, repeat, use_dw, use_dr) ==
    LET in0 == IF use_dr THEN in_channels[Len(in_channels)] ELSE in_channels
    IN  [cls |-> "JasperUnit",
         use_dropout |-> (dropout_rate # 0),
         use_dr |-> use_dr,
         identity_block |->
            IF use_dr
            THEN [cls |-> "DualPathParallelConcurent",
                  modules |-> [i \in 1..Len(in_channels) |->
                      mask_conv1d1_block(in_channels[i], out_channels, 1, 0,
                                         bn_eps, 0, "None")]]
            ELSE mask_conv1d1_block(in_channels, out_channels, 1, 0, bn_eps, 0,
                                    "None"),
         body |-> [i \in 1..repeat |->
            BlockClass(use_dw, IF i = 1 THEN in0 ELSE out_channels,
                       out_channels, kernel_size, 1, SamePadding(kernel_size),
                       1, bn_eps,
                       IF i - 1 < repeat - 1 THEN "ReLU" ELSE "None",
                       IF i - 1 < repeat - 1 THEN dropout_rate ELSE 0)],
         activ |-> [cls |-> "ReLU"],
         dropout |-> IF dropout_rate # 0
                     THEN [cls |-> "Dropout", p |-> dropout_rate] ELSE None]

Failed(t, xl, log) == [ok |-> FALSE, x |-> t, x_len |-> xl, log |-> log]

\* (mutant: the unit's activation left out)
JasperUnit_return_noact(unit, t, xl, idn, body, sum) ==
    IF ~sum.ok THEN Failed(t, xl, idn.log \o body.log)
    ELSE [ok |-> TRUE,
          x |-> IF unit.use_dropout THEN Dropout(sum.x) ELSE sum.x,
          x_len |-> IF unit.use_dr
                    THEN DrTuple(body.x_len, xl.y \o <<t>>, xl.y_len \o <<xl.len>>)
                    ELSE LenVec(body.x_len),
          log |-> idn.log \o body.log]

\* x = self.activ(x); dropout if the unit has it; return
JasperUnit_return(unit, t, xl, idn, body, sum) ==
    IF ~sum.ok THEN Failed(t, xl, idn.log \o body.log)
    ELSE [ok |-> TRUE,
          x |-> IF unit.use_dropout THEN Dropout(ReLU(sum.x)) ELSE ReLU(sum.x),
          x_len |-> IF unit.use_dr
                    THEN DrTuple(body.x_len, xl.y \o <<t>>, xl.y_len \o <<xl.len>>)
                    ELSE LenVec(body.x_len),
          log |-> idn.log \o body.log]

\* x = x + identity
JasperUnit_add(unit, t, xl, idn, body) ==
    IF ~body.ok THEN Failed(t, xl, idn.log \o body.log)
    ELSE JasperUnit_return(unit, t, xl, idn, body, Add(body.x, idn.x))

\* x, x_len = self.body(x, x_len)
JasperUnit_body(unit, t, xl, idn) ==
    IF ~idn.ok THEN Failed(t, xl, idn.log)
    ELSE JasperUnit_add(unit, t, xl, idn,
                        DualPathSequential_forward(unit.body, 1, t, xl.len))

\* (mutant: only the projection of the unit's own input is kept)
DenseIdentity_last(par) ==
    IF ~par.ok THEN [ok |-> FALSE, x |-> None, log |-> par.log]
    ELSE [ok |-> Len(par.xs) > 0, x |-> par.xs[Len(par.xs)], log |-> par.log]

\* identity = torch.stack(tuple(identity), dim=1).sum(dim=1)
DenseIdentity(par) ==
    IF ~par.ok THEN [ok |-> FALSE, x |-> None, log |-> par.log]
    ELSE [StackSum(par.xs) EXCEPT !.log = par.log]

\* JasperUnit.forward: the identity path first.  With use_dr the second path
\* is unpacked to (x_len, y, y_len) and y, y_len are extended by the input.
JasperUnit_forward(unit, t, xl) ==
    JasperUnit_body(unit, t, xl,
        IF unit.use_dr
        THEN DenseIdentity(DualPathParallelConcurent_forward(
                 unit.identity_block.modules, 1, xl.y \o <<t>>,
                 xl.y_len \o <<xl.len>>))
        ELSE MaskConvBlock1d_forward(unit.identity_block, t, xl.len))

\* ---------------------------------------------------------------- JasperFinalBlock
JasperFinalBlock(in_channels, channels, kernel_sizes, bn_eps, dropout_rates, use_dw, use_dr) ==
    LET n == Len(channels)
    IN  [cls |-> "JasperFinalBlock",
         use_dr |-> use_dr,
         conv1 |-> BlockClass(use_dw, in_channels, channels[n - 1],
                              kernel_sizes[Len(kernel_sizes) - 1], 1,
                              FinalPadding(kernel_sizes[Len(kernel_sizes) - 1]),
                              2, bn_eps, "ReLU",
                              dropout_rates[Len(dropout_rates) - 1]),
         conv2 |-> MaskConvBlock1d(channels[n - 1], channels[n],
                                   kernel_sizes[Len(kernel_sizes)], 1,
                                   SamePadding(kernel_sizes[Len(kernel_sizes)]),
                                   1, 1,
                                   FALSE, TRUE, bn_eps, "ReLU",
                                   dropout_rates[Len(dropout_rates)])]

\* With use_dr, x_len[0] of a bare length vector (no unit ran before) is a
\* 0-dim tensor, which the mask cannot take len() of.
JasperFinalBlock_return(t, xl, c1, c2) ==
    IF ~c2.ok THEN Failed(t, xl, c1.log \o c2.log)
    ELSE [ok |-> TRUE, x |-> c2.x, x_len |-> LenVec(c2.x_len),
          log |-> c1.log \o c2.log]

\* x, x_len = self.conv2(x, x_len)
JasperFinalBlock_conv2(fin, t, xl, c1) ==
    IF ~c1.ok THEN Failed(t, xl, c1.log)
    ELSE JasperFinalBlock_return(t, xl, c1,
             MaskConvBlock1d_forward(fin.conv2, c1.x, c1.x_len))

JasperFinalBlock_forward(fin, t, xl) ==
    IF fin.use_dr /\ ~xl.tuple THEN Failed(t, xl, <<>>)
    ELSE JasperFinalBlock_conv2(fin, t, xl, Block_forward(fin.conv1, t, xl.len))

\* ---------------------------------------------------------------- Jasper
\* Python s[1:-2]
Slice1m2(s) == IF Len(s) >= 3 THEN SubSeq(s, 2, Len(s) - 2) ELSE <<>>

\* isinstance(module, cls): cls is the module's class or one of its bases.
Base(c) ==
    CASE c = "MaskConv1d" -> "Conv1d"
      [] c = "Conv1d" -> "_ConvNd"
      [] c = "Conv2d" -> "_ConvNd"
      [] c = "Module" -> "object"
      [] OTHER -> "Module"

RECURSIVE IsInstance(_, _)
IsInstance(c, target) ==
    IF c = target THEN TRUE
    ELSE IF c = "object" THEN FALSE
    ELSE IsInstance(Base(c), target)

\* The body of the loop of _init_params for one module.
InitModule(m) ==
    IF IsInstance(m.cls, "Conv2d")
    THEN [m EXCEPT !.winit = "kaiming_uniform",
                   !.binit = IF m.bias THEN "zero" ELSE @]
    ELSE m

\* _init_params over the children of a block, a unit, the final block.
InitBlockModules(blk) ==
    LET b == InitModule(blk)
    IN  IF b.cls = "DwsConvBlock1d"
        THEN [b EXCEPT !.dw_conv = InitModule(@), !.pw_conv = InitModule(@),
                       !.shuffle = InitModule(@), !.bn = InitModule(@),
                       !.activ = InitModule(@), !.dropout = InitModule(@)]
        ELSE [b EXCEPT !.conv = InitModule(@), !.bn = InitModule(@),
                       !.activ = InitModule(@), !.dropout = InitModule(@)]

InitChildModules(m) ==
    LET u == InitModule(m)
    IN  CASE u.cls = "JasperUnit" ->
               [u EXCEPT !.identity_block =
                            IF u.use_dr
                            THEN [@ EXCEPT !.modules =
                                    [i \in 1..Len(@) |-> InitBlockModules(@[i])]]
                            ELSE InitBlockModules(@),
                         !.body = [i \in 1..Len(@) |-> InitBlockModules(@[i])],
                         !.activ = InitModule(@), !.dropout = InitModule(@)]
          [] u.cls = "JasperFinalBlock" ->
               [u EXCEPT !.conv1 = InitBlockModules(@),
                         !.conv2 = InitBlockModules(@)]
          [] OTHER -> InitBlockModules(u)

\* for name, module in self.named_modules(): ...
_init_params(n) ==
    [n EXCEPT !.features = [i \in 1..Len(@) |->
                 [@[i] EXCEPT !.module = InitChildModules(@)]],
              !.output = InitModule(@)]

Jasper(channels, kernel_sizes, bn_eps, dropout_rates, repeat, use_dw, use_dr, in_channels, num_classes) ==
    LET outs == Slice1m2(channels)
        ks == Slice1m2(kernel_sizes)
        drs == Slice1m2(dropout_rates)
        nunits == Min(Len(outs), Min(Len(ks), Len(drs)))
        \* in_channels at the top of loop iteration i (1-based)
        InCh(i) == IF i = 1 THEN channels[1] ELSE outs[i - 1]
        in_channels_list(i) == [j \in 1..i |-> InCh(j)]
        init_block == BlockClass(use_dw, in_channels, channels[1],
                                 kernel_sizes[1], 2,
                                 SamePadding(kernel_sizes[1]), 1, bn_eps, "ReLU", dropout_rates[1])
        unit(i) == JasperUnit(IF use_dr THEN in_channels_list(i) ELSE InCh(i),
                              outs[i], ks[i], bn_eps, drs[i], repeat, use_dw,
                              use_dr)
        final_block == JasperFinalBlock(InCh(nunits + 1), channels,
                                        kernel_sizes, bn_eps, dropout_rates,
                                        use_dw, use_dr)
    IN  _init_params(
        [cls |-> "Jasper",
         in_size |-> None,
         num_classes |-> num_classes,
         features |->
            <<[name |-> <<"init_block">>, module |-> init_block]>>
            \o [i \in 1..nunits |-> [name |-> <<"unit", i>>, module |-> unit(i)]]
            \o <<[name |-> <<"final_block">>, module |-> final_block]>>,
         output |-> conv1d1(channels[Len(channels)], num_classes, 1, 1, TRUE)])

\* ---------------------------------------------------------------- named_modules
\* net.named_modules(): the module, then its registered children, depth first.
Opt(m) == IF m.cls = "NoneType" THEN <<>> ELSE <<m>>

BlockModules(blk) ==
    <<blk>>
    \o (IF blk.cls = "DwsConvBlock1d"
        THEN <<blk.dw_conv, blk.pw_conv>> \o Opt(blk.shuffle)
        ELSE <<blk.conv>>)
    \o Opt(blk.bn) \o Opt(blk.activ) \o Opt(blk.dropout)

RECURSIVE BlocksModules(_, _)
BlocksModules(blocks, i) ==
    IF i > Len(blocks) THEN <<>>
    ELSE BlockModules(blocks[i]) \o BlocksModules(blocks, i + 1)

ChildModules(m) ==
    CASE m.cls = "JasperUnit" ->
            <<m>>
            \o (IF m.use_dr
                THEN <<[cls |-> "DualPathParallelConcurent"]>>
                     \o BlocksModules(m.identity_block.modules, 1)
                ELSE BlockModules(m.identity_block))
            \o <<[cls |-> "DualPathSequential"]>> \o BlocksModules(m.body, 1)
            \o <<m.activ>> \o Opt(m.dropout)
      [] m.cls = "JasperFinalBlock" ->
            <<m>> \o BlockModules(m.conv1) \o BlockModules(m.conv2)
      [] OTHER -> BlockModules(m)

RECURSIVE FeatureModules(_, _)
FeatureModules(features, i) ==
    IF i > Len(features) THEN <<>>
    ELSE ChildModules(features[i].module) \o FeatureModules(features, i + 1)

named_modules(n) ==
    <<n, [cls |-> "DualPathSequential"]>> \o FeatureModules(n.features, 1)
    \o <<n.output>>

\* ---------------------------------------------------------------- _calc_width
\* np.prod(param.size()) summed over the parameters a module owns itself: a
\* convolution's weight (out, in / groups, kernel) and bias (out), a batch
\* normalisation's weight and bias (num_features each).
OwnParams(m) ==
    CASE IsInstance(m.cls, "_ConvNd") ->
            m.out_channels * (m.in_channels \div m.groups) * m.kernel_size
            + (IF m.bias THEN m.out_channels ELSE 0)
      [] m.cls = "BatchNorm1d" -> 2 * m.num_features
      [] OTHER -> 0

RECURSIVE SumParams(_, _)
SumParams(mods, i) ==
    IF i > Len(mods) THEN 0 ELSE OwnParams(mods[i]) + SumParams(mods, i + 1)

\* the sum taken child by child, in named_modules' order
RECURSIVE SumFeatures(_, _)
SumFeatures(features, i) ==
    IF i > Len(features) THEN 0
    ELSE SumParams(ChildModules(features[i].module), 1)
         + SumFeatures(features, i + 1)

_calc_width(n) == SumFeatures(n.features, 1) + OwnParams(n.output)

\* ---------------------------------------------------------------- get_jasper
\* A version string is a sequence of one-character strings.
Digits == <<"0", "1", "2", "3", "4", "5", "6", "7", "8", "9">>
DigitValue(c) == (CHOOSE i \in 1..10 : Digits[i] = c) - 1
IsDigit(c) == \E i \in 1..10 : Digits[i] = c

RECURSIVE Split(_, _)
\* str.split(sep) for a one-character separator
Split(s, sep) ==
    IF \A i \in 1..Len(s) : s[i] # sep THEN <<s>>
    ELSE LET i == CHOOSE j \in 1..Len(s) :
                     s[j] = sep /\ \A h \in 1..(j - 1) : s[h] # sep
         IN  <<SubSeq(s, 1, i - 1)>> \o Split(SubSeq(s, i + 1, Len(s)), sep)

RECURSIVE ParseInt(_)
\* int(s) of a non-empty string of decimal digits
ParseInt(s) ==
    IF Len(s) = 0 THEN 0
    ELSE 10 * ParseInt(SubSeq(s, 1, Len(s) - 1)) + DigitValue(s[Len(s)])

RECURSIVE Repeat(_, _)
\* [a] * r
Repeat(a, r) == IF r <= 0 THEN <<>> ELSE <<a>> \o Repeat(a, r - 1)

RECURSIVE Expand(_, _, _)
\* sum([[a] * r for (a, r) in zip(table, stage_repeat)], [])
Expand(table, stage_repeat, i) ==
    IF i > Min(Len(table), Len(stage_repeat)) THEN <<>>
    ELSE Repeat(table[i], stage_repeat[i]) \o Expand(table, stage_repeat, i + 1)

channels_per_stage == <<256, 256, 384, 512, 640, 768, 896, 1024>>
kernel_sizes_per_stage == <<11, 11, 13, 17, 21, 25, 29, 1>>
dropout_rates_per_stage == <<2, 2, 2, 2, 3, 3, 4, 4>>

\* (mutant: the slice taken as [1:-1])
StageRepeat_wide(main_stage_repeat) ==
    [i \in 1..8 |-> IF i - 1 >= 1 /\ i - 1 < 8 - 1 THEN 1 * main_stage_repeat
                    ELSE 1]

\* stage_repeat = np.full((8,), 1); stage_repeat[1:-2] *= main_stage_repeat
StageRepeat(main_stage_repeat) ==
    [i \in 1..8 |-> IF i - 1 >= 1 /\ i - 1 < 8 - 2 THEN 1 * main_stage_repeat
                    ELSE 1]

\* blocks, repeat = tuple(map(int, version.split("x")))
ParseVersion(version) ==
    LET parts == Split(version, "x")
    IN  IF Len(parts) # 2
           \/ \E i \in 1..Len(parts) :
                 Len(parts[i]) = 0 \/ \E j \in 1..Len(parts[i]) : ~IsDigit(parts[i][j])
        THEN ValueError("get_jasper")
        ELSE [cls |-> "tuple", blocks |-> ParseInt(parts[1]),
              repeat |-> ParseInt(parts[2])]

\* The arguments get_jasper passes to Jasper for a parsed version.
JasperArgs(v) ==
    LET stage_repeat == StageRepeat(v.blocks \div 5)
    IN  [channels |-> Expand(channels_per_stage, stage_repeat, 1),
         kernel_sizes |-> Expand(kernel_sizes_per_stage, stage_repeat, 1),
         dropout_rates |-> Expand(dropout_rates_per_stage, stage_repeat, 1),
         repeat |-> v.repeat,
         use_dw |-> FALSE,
         use_dr |-> FALSE]

JasperFrom(a, bn_eps, in_channels, num_classes) ==
    Jasper(a.channels, a.kernel_sizes, bn_eps, a.dropout_rates, a.repeat,
           a.use_dw, a.use_dr, in_channels, num_classes)

get_jasper_parsed(v, bn_eps, in_channels, num_classes) ==
    IF IsError(v) THEN v
    ELSE JasperFrom(JasperArgs(v), bn_eps, in_channels, num_classes)

get_jasper(version, bn_eps, in_channels, num_classes) ==
    get_jasper_parsed(ParseVersion(version), bn_eps, in_channels, num_classes)

\* ---------------------------------------------------------------- Jasper.forward
\* (mutant: the output convolution left out)
Conv1d_forward_skipped(conv, t) == [ok |-> TRUE, x |-> t]

\* self.output(x): a plain nn.Conv1d, no mask and no length update.
Conv1d_forward(conv, t) == F_conv1d(t, conv)

\* One child of self.features applied to (x, x_len), by the child's class.
WrapLen(r) == [r EXCEPT !.x_len = LenVec(@)]
Child_forward(m, t, xl) ==
    CASE m.cls = "JasperUnit" -> JasperUnit_forward(m, t, xl)
      [] m.cls = "JasperFinalBlock" -> JasperFinalBlock_forward(m, t, xl)
      [] OTHER -> WrapLen(Block_forward(m, t, xl.len))

\* ---------------------------------------------------------------- inputs
\* The calls of the _test harness and of the three named factories, plus
\* version strings outside the named ones.
Versions ==
    { <<"5", "x", "3">>, <<"1", "0", "x", "4">>, <<"1", "0", "x", "5">>,
      <<"3", "x", "2">>, <<"7", "x", "1">> }

NamedVersions ==
    { <<"5", "x", "3">>, <<"1", "0", "x", "4">>, <<"1", "0", "x", "5">> }

audio_features == 64
num_classes_default == 29

FactoryCalls ==
    { [fn |-> "get_jasper", version |-> v, channels |-> <<>>,
       kernel_sizes |-> <<>>, dropout_rates |-> <<>>, repeat |-> 0,
       use_dw |-> FALSE, use_dr |-> FALSE, bn_eps |-> "1e-3",
       in_channels |-> audio_features, num_classes |-> num_classes_default]
      : v \in Versions }

\* Direct constructor calls Jasper(channels, kernel_sizes, ...) with n units:
\* channel counts alternate 2, 1, 2, ..., the init and last kernels are k0,
\* the unit and first final kernels are ku.
DirectCalls ==
    { [fn |-> "Jasper", version |-> <<>>,
       channels |-> [i \in 1..(n + 3) |-> 1 + (i % 2)],
       kernel_sizes |-> [i \in 1..(n + 3) |->
                            IF i = 1 \/ i = n + 3 THEN k0 ELSE ku],
       dropout_rates |-> [i \in 1..(n + 3) |-> IF i % 2 = 0 THEN 2 ELSE 0],
       repeat |-> r, use_dw |-> dw, use_dr |-> dr, bn_eps |-> "1e-3",
       in_channels |-> 1, num_classes |-> 3]
      : n \in 0..MaxUnits, k0 \in {MaxKernel - 1, MaxKernel},
        ku \in 1..MaxKernel,
        r \in 1..2, dw \in BOOLEAN, dr \in BOOLEAN }

\* Input batches: time dimension T, per-sample valid lengths 0..T, every
\* position (padding included) holding a non-zero value.
InputTensor(B, C, T) ==
    Tensor(B, C, T, [b \in 1..B |-> [i \in 1..T |-> 1 + ((b + i) % 2)]])

\* (x, x_len) pairs for a model or layer taking C input channels
Inputs(C) ==
    UNION { { [x |-> InputTensor(B, C, T), len |-> l] : l \in [1..B -> 0..T] }
            : B \in 1..MaxBatch, T \in 1..MaxT }

\* The batches given to a model: every layer treats the samples of a batch
\* independently, so batches are taken with non-increasing valid lengths.
SortedInputs(C) ==
    { in \in Inputs(C) :
        \A b \in 1..(in.x.batch - 1) : in.len[b] >= in.len[b + 1] }

\* The inputs of _test: batch 1, seq_len from TestSeqLenMin on (both
\* parities), x_len = seq_len - 2.
TestSeqLenMin == 60
TestInputs(C) ==
    { [x |-> InputTensor(1, C, T), len |-> <<T - 2>>]
      : T \in {TestSeqLenMin, TestSeqLenMin + 1} }

\* The batches a call is run on: the factory-built models on every small
\* batch and on the test's, the directly built ones on full batches.
CallInputs(c) ==
    IF c.fn = "get_jasper"
    THEN SortedInputs(c.in_channels) \cup TestInputs(c.in_channels)
    ELSE { in \in SortedInputs(c.in_channels) : in.x.batch = MaxBatch }

\* The learned shifts of batch normalisation tried with a call; a negative
\* shift makes activations clamp.
BnBetas(c) == IF c.fn = "get_jasper" THEN {0, 1} ELSE {-1, 1}

Idle == [pc |-> "idle"]

Init ==
    /\ call \in FactoryCalls \cup DirectCalls
    /\ net = None
    /\ pc = "new"
    /\ stage = 0
    /\ \E in \in CallInputs(call) :
          /\ x = in.x
          /\ x_len = LenVec(in.len)
          /\ input = [x |-> in.x, x_len |-> in.len]
    /\ x_in = None
    /\ conv_log = <<>>
    /\ applied = <<>>
    /\ bn_beta \in BnBetas(call)
    /\ lay = Idle

\* ---------------------------------------------------------------- actions
Built(n) ==
    /\ net' = n
    /\ pc' = IF IsError(n) THEN "error" ELSE "forward"
    /\ stage' = 1
    /\ UNCHANGED <<call, x, x_len, x_in, conv_log, applied, bn_beta, input, lay>>

\* net = jasperNxM(in_channels=..., num_classes=..., pretrained=False)
CallGetJasper ==
    /\ pc = "new"
    /\ call.fn = "get_jasper"
    /\ Built(get_jasper(call.version, call.bn_eps, call.in_channels,
                        call.num_classes))

\* net = Jasper(channels, kernel_sizes, bn_eps, dropout_rates, repeat, ...)
CallJasper ==
    /\ pc = "new"
    /\ call.fn = "Jasper"
    /\ Built(Jasper(call.channels, call.kernel_sizes, call.bn_eps,
                    call.dropout_rates, call.repeat, call.use_dw, call.use_dr,
                    call.in_channels, call.num_classes))

\* self.features(x, x_len), one child per step: x, x_len = child(x, x_len)
Stepped(r) ==
    /\ x' = r.x
    /\ x_len' = r.x_len
    /\ conv_log' = r.log
    /\ pc' = IF r.ok THEN "forward" ELSE "error"

FeatureStep(kind) ==
    /\ pc = "forward"
    /\ stage <= Len(net.features)
    /\ net.features[stage].name[1] = kind
    /\ Stepped(Child_forward(net.features[stage].module, x, x_len))
    /\ x_in' = [x |-> x, x_len |-> x_len]
    /\ applied' = Append(applied, net.features[stage].name)
    /\ stage' = stage + 1
    /\ UNCHANGED <<call, net, bn_beta, input, lay>>

InitBlockForward == FeatureStep("init_block")
UnitForward == FeatureStep("unit")
FinalBlockForward == FeatureStep("final_block")

Returned(r) ==
    /\ x' = r.x
    /\ pc' = IF r.ok THEN "done" ELSE "error"

\* x = self.output(x); return x, x_len
OutputForward ==
    /\ pc = "forward"
    /\ stage = Len(net.features) + 1
    /\ Returned(Conv1d_forward(net.output, x))
    /\ x_in' = [x |-> x, x_len |-> x_len]
    /\ conv_log' = <<>>
    /\ applied' = Append(applied, <<"output">>)
    /\ stage' = stage + 1
    /\ UNCHANGED <<call, net, x_len, bn_beta, input, lay>>

Next ==
    \/ CallGetJasper
    \/ CallJasper
    \/ InitBlockForward
    \/ UnitForward
    \/ FinalBlockForward
    \/ OutputForward

Spec == Init /\ [][Next]_vars

\* ---------------------------------------------------------------- single layers
\* One layer constructed and called on its own.  lay is
\*   [pc, kind, args, layer, x, x_len, r, todo, x0]
\* pc: "new" -> "built" | "raised"; "built" -> "returned" | "failed".
\* For a channel shuffle todo lists the group counts still to be applied (g,
\* then channels / g) and x0 keeps the tensor given to the first of them.

\* A tensor with the channel axis written out whose values are all distinct.
XInput(B, C, T) ==
    XTensor(B, C, T, [b \in 1..B |-> [c \in 1..C |-> [i \in 1..T |->
        ((b - 1) * C + (c - 1)) * T + i]]])

LayerArgs(k, st, p, d, cin, cout, g) ==
    [kernel_size |-> k, stride |-> st, padding |-> p, dilation |-> d,
     in_channels |-> cin, out_channels |-> cout, groups |-> g]

NewLay(kind, args, t, xl, todo) ==
    [pc |-> "new", kind |-> kind, args |-> args, layer |-> None, x |-> t,
     x_len |-> xl, r |-> None, todo |-> todo, x0 |-> t, xs |-> <<>>]

MaskConvLays ==
    { NewLay("MaskConv1d", LayerArgs(k, st, p, d, 1, 1, 1), in.x, in.len, <<>>)
      : k \in 1..MaxKernel, st \in 1..MaxStride, p \in 0..MaxPad,
        d \in 1..MaxDil, in \in Inputs(1) }

ShuffleLays ==
    { NewLay("ChannelShuffle1d", LayerArgs(1, 1, 0, 1, c, c, g),
             XInput(B, c, T), <<>>, <<g, c \div g>>)
      : c \in 1..MaxCh, g \in 1..MaxCh, B \in 1..2, T \in 1..2 }

DwsLaysFor(cin) ==
    { NewLay("DwsConvBlock1d", LayerArgs(k, 1, k \div 2, 1, cin, cout, g),
             in.x, in.len, <<>>)
      : k \in {1, MaxKernel}, cout \in 1..MaxCh, g \in 1..MaxCh,
        in \in {i \in Inputs(cin) : i.x.batch = 1} }

DwsLays == UNION { DwsLaysFor(cin) : cin \in 1..2 }

NoCall == [fn |-> "none"]

InitLayer ==
    /\ \/ lay \in MaskConvLays
       \/ lay \in ShuffleLays
       \/ lay \in DwsLays
    /\ call = NoCall
    /\ net = None
    /\ pc = "idle"
    /\ stage = 0
    /\ x = None
    /\ x_len = None
    /\ x_in = None
    /\ conv_log = <<>>
    /\ applied = <<>>
    /\ bn_beta = 1
    /\ input = None

LayBuilt(m) ==
    /\ lay' = [lay EXCEPT !.layer = m,
                          !.pc = IF IsError(m) THEN "raised" ELSE "built"]
    /\ UNCHANGED <<call, net, pc, stage, x, x_len, x_in, conv_log, applied,
                   bn_beta, input>>

\* conv = MaskConv1d(in_channels, out_channels, kernel_size, stride, ...)
NewMaskConv1d ==
    /\ lay.pc = "new"
    /\ lay.kind = "MaskConv1d"
    /\ LayBuilt(MaskConv1d(lay.args.in_channels, lay.args.out_channels,
                           lay.args.kernel_size, lay.args.stride,
                           lay.args.padding, lay.args.dilation,
                           lay.args.groups, FALSE))

\* shuffle = ChannelShuffle1d(channels, groups), groups the next of todo
NewChannelShuffle1d ==
    /\ lay.pc = "new"
    /\ lay.kind = "ChannelShuffle1d"
    /\ LayBuilt(ChannelShuffle1d(lay.args.in_channels, lay.todo[1]))

\* block = DwsConvBlock1d(in_channels, out_channels, ..., groups=groups)
NewDwsConvBlock1d ==
    /\ lay.pc = "new"
    /\ lay.kind = "DwsConvBlock1d"
    /\ LayBuilt(DwsConvBlock1d(lay.args.in_channels, lay.args.out_channels,
                               lay.args.kernel_size, lay.args.stride,
                               lay.args.padding, lay.args.dilation,
                               lay.args.groups, FALSE, TRUE, "1e-5", "ReLU", 0))

LayReturned(r) ==
    /\ lay' = [lay EXCEPT !.r = r,
                          !.pc = IF r.ok THEN "returned" ELSE "failed"]
    /\ UNCHANGED <<call, net, pc, stage, x, x_len, x_in, conv_log, applied,
                   bn_beta, input>>

\* y, y_len = conv(x, x_len)
MaskConv1dForward ==
    /\ lay.pc = "built"
    /\ lay.kind = "MaskConv1d"
    /\ LayReturned(MaskConv1d_forward(lay.layer, lay.x, lay.x_len))

\* y, y_len = block(x, x_len)
DwsConvBlock1dForward ==
    /\ lay.pc = "built"
    /\ lay.kind = "DwsConvBlock1d"
    /\ LayReturned(DwsConvBlock1d_forward(lay.layer, lay.x, lay.x_len))

\* x = shuffle(x); the next shuffle, if any, is then constructed for x.
LayShuffled(r) ==
    /\ lay' = [lay EXCEPT !.r = r,
                          !.x = IF r.ok THEN r.x ELSE @,
                          !.xs = IF r.ok THEN Append(@, r.x) ELSE @,
                          !.todo = Tail(@),
                          !.pc = IF ~r.ok THEN "failed"
                                 ELSE IF Len(lay.todo) > 1 THEN "new"
                                 ELSE "returned"]
    /\ UNCHANGED <<call, net, pc, stage, x, x_len, x_in, conv_log, applied,
                   bn_beta, input>>

ChannelShuffle1dForward ==
    /\ lay.pc = "built"
    /\ lay.kind = "ChannelShuffle1d"
    /\ LayShuffled(ChannelShuffle1d_forward(lay.layer, lay.x))

NextLayer ==
    \/ NewMaskConv1d
    \/ MaskConv1dForward
    \/ NewChannelShuffle1d
    \/ ChannelShuffle1dForward
    \/ NewDwsConvBlock1d
    \/ DwsConvBlock1dForward

SpecLayer == InitLayer /\ [][NextLayer]_vars

\* ================================================================ claims
\* The time index t (0-based) of sample b is padding for a length vector xl.
IsPadding(xl, b, t) == t >= xl[b]

\* ---------------------------------------------------------------- C1
\* C1: whenever MaskConv1d.forward returns, every sample's new length is
\* floor((len + 2*padding - dilation*(kernel-1) - 1) / stride) + 1, floor(a/s)
\* being the one integer q with q*s <= a < (q+1)*s; and this is the length
\* formula of the convolution: for a sample without padding (len equal to the
\* input's time dimension) it is the time dimension F.conv1d produced.
C1_Numerator(b) ==
    lay.x_len[b] + 2 * lay.args.padding
        - lay.args.dilation * (lay.args.kernel_size - 1) - 1

C1_LengthFormula ==
    (lay.kind = "MaskConv1d" /\ lay.pc = "returned") =>
        \A b \in 1..Len(lay.x_len) :
            /\ (lay.r.x_len[b] - 1) * lay.args.stride <= C1_Numerator(b)
            /\ C1_Numerator(b) < lay.r.x_len[b] * lay.args.stride
            /\ lay.x_len[b] = lay.x.time => lay.r.x_len[b] = lay.r.x.time

\* A strided, dilated, padded convolution returned for a batch of two different
\* lengths, one of them with a negative numerator that the stride does not
\* divide (where floor and truncation part).
C1_Witness ==
    /\ lay.kind = "MaskConv1d" /\ lay.pc = "returned"
    /\ lay.args.stride = 2 /\ lay.args.dilation = 2 /\ lay.args.padding > 0
    /\ lay.args.kernel_size > 1
    /\ Len(lay.x_len) = 2 /\ lay.x_len[1] # lay.x_len[2]
    /\ \E b \in 1..2 : C1_Numerator(b) < 0 /\ C1_Numerator(b) % 2 # 0
    /\ \E b \in 1..2 : lay.r.x_len[b] > 1

\* ---------------------------------------------------------------- C2
\* C2: every masked convolution of the model (all convolutions of the init
\* block, of the units' body and identity blocks and of the final block are
\* masked) convolves its input with 0 at every padding position t >= len[b]
\* of every sample and the input's own value at every position t < len[b].
C2_Masked(e) ==
    /\ e.conv.use_mask
    /\ e.conv_in.batch = e.pre.batch
    /\ e.conv_in.channels = e.pre.channels
    /\ e.conv_in.time = e.pre.time
    /\ \A b \in 1..e.pre.batch : \A i \in 1..e.pre.time :
          e.conv_in.val[b][i] =
             IF IsPadding(e.len, b, i - 1) THEN 0 ELSE e.pre.val[b][i]

RECURSIVE C2_ConvCount(_, _)
\* the number of convolutions among modules mods[i..]
C2_ConvCount(mods, i) ==
    IF i > Len(mods) THEN 0
    ELSE (IF IsInstance(mods[i].cls, "_ConvNd") THEN 1 ELSE 0)
         + C2_ConvCount(mods, i + 1)

C2_MaskBeforeEveryConv ==
    /\ \A j \in 1..Len(conv_log) : C2_Masked(conv_log[j])
    /\ (pc = "forward" /\ stage > 1) =>
          Len(conv_log) =
             C2_ConvCount(ChildModules(net.features[stage - 1].module), 1)

\* A dense-residual unit ran on a batch of two different lengths, and some
\* convolution of it received a non-zero value at a padding position.
C2_Witness ==
    /\ pc = "forward" /\ stage > 1
    /\ net.features[stage - 1].module.cls = "JasperUnit"
    /\ net.features[stage - 1].module.use_dr
    /\ Len(net.features[stage - 1].module.identity_block.modules) = 2
    /\ x_in.x.batch = 2 /\ x_in.x_len.len[1] # x_in.x_len.len[2]
    /\ \E j \in 1..Len(conv_log) : \E b \in 1..conv_log[j].pre.batch :
          \E i \in 1..conv_log[j].pre.time :
             /\ IsPadding(conv_log[j].len, b, i - 1)
             /\ conv_log[j].pre.val[b][i] # 0
             /\ conv_log[j].len[b] > 0

\* ---------------------------------------------------------------- C3
\* C3: for jasper5x3, jasper10x4 and jasper10x5 and every input of time
\* length L >= 1, the forward pass returns and the logits' time length is
\* L // 2 or L // 2 + 1.
C3_Named == call.fn = "get_jasper" /\ call.version \in NamedVersions

C3_OutputTime ==
    C3_Named =>
        /\ pc # "error"
        /\ pc = "done" =>
              x.time \in {input.x.time \div 2, input.x.time \div 2 + 1}

\* jasper10x5 returned logits for an input of odd length as long as the test's.
C3_Witness ==
    /\ call.fn = "get_jasper" /\ call.version = <<"1", "0", "x", "5">>
    /\ pc = "done"
    /\ input.x.time = TestSeqLenMin + 1
    /\ x.time = input.x.time \div 2 + 1

\* ---------------------------------------------------------------- C4
\* C4: after the init block, after each unit and after the final block, every
\* sample's tracked length is the time dimension the stage's convolutions give
\* an input as long as the sample's valid length; it is at most the stage
\* output's time dimension when the valid length was at most the input's, and
\* equal to it when the sample had no padding.
C4_BlockOut(blk, n) ==
    IF blk.cls = "DwsConvBlock1d"
    THEN OutTime(blk.pw_conv, OutTime(blk.dw_conv, n))
    ELSE OutTime(blk.conv, n)

RECURSIVE C4_BodyOut(_, _, _)
C4_BodyOut(blocks, i, n) ==
    IF i > Len(blocks) THEN n
    ELSE C4_BodyOut(blocks, i + 1, C4_BlockOut(blocks[i], n))

C4_StageOut(m, n) ==
    CASE m.cls = "JasperUnit" -> C4_BodyOut(m.body, 1, n)
      [] m.cls = "JasperFinalBlock" -> C4_BlockOut(m.conv2, C4_BlockOut(m.conv1, n))
      [] OTHER -> C4_BlockOut(m, n)

C4_LengthTracksTensor ==
    (pc = "forward" /\ stage > 1) =>
        \A b \in 1..x_in.x.batch :
            /\ x_len.len[b] =
                  C4_StageOut(net.features[stage - 1].module, x_in.x_len.len[b])
            /\ x_in.x_len.len[b] <= x_in.x.time => x_len.len[b] <= x.time
            /\ x_in.x_len.len[b] = x_in.x.time => x_len.len[b] = x.time

\* The final block (dilation 2) of a depthwise model ran on a batch of one
\* sample without padding and one with, the padded one keeping a length
\* strictly between 0 and the tensor's time dimension.
C4_Witness ==
    /\ pc = "forward" /\ stage > 1
    /\ net.features[stage - 1].module.cls = "JasperFinalBlock"
    /\ net.features[stage - 1].module.conv1.cls = "DwsConvBlock1d"
    /\ x_in.x.batch = 2
    /\ x_in.x_len.len[1] = x_in.x.time
    /\ x_in.x_len.len[2] < x_in.x.time
    /\ x_len.len[2] > 0 /\ x_len.len[2] < x.time

\* ---------------------------------------------------------------- C5
\* C5: built with 64 input channels and 29 classes, jasper5x3 has 107681053
\* trainable parameters, jasper10x4 261393693 and jasper10x5 322286877.
C5_Expected(version) ==
    CASE version = <<"5", "x", "3">> -> 107681053
      [] version = <<"1", "0", "x", "4">> -> 261393693
      [] version = <<"1", "0", "x", "5">> -> 322286877

C5_ParameterCount ==
    (C3_Named /\ pc # "new" /\ call.in_channels = 64 /\ call.num_classes = 29)
        => _calc_width(net) = C5_Expected(call.version)

\* jasper10x4 has just been built by the factory.
C5_Witness ==
    /\ call.fn = "get_jasper" /\ call.version = <<"1", "0", "x", "4">>
    /\ call.in_channels = 64 /\ call.num_classes = 29
    /\ pc = "forward" /\ stage = 1
    /\ net.cls = "Jasper"

\* ---------------------------------------------------------------- C6
\* C6: the children are applied in the order init block, unit 1 .. unit n,
\* final block, output convolution; when forward returns, the logits have the
\* input's batch size and num_classes channels, and the returned lengths are
\* the length vector the final block produced, untouched by the output
\* convolution.
C6_Order(n) ==
    <<<<"init_block">>>> \o [i \in 1..n |-> <<"unit", i>>]
    \o <<<<"final_block">>, <<"output">>>>

C6_Units ==
    IF call.fn = "Jasper" THEN Len(call.channels) - 3
    ELSE Len(net.features) - 2

C6_ForwardOrder ==
    (pc \in {"forward", "done", "error"} /\ ~IsError(net)) =>
        /\ Len(applied) <= C6_Units + 3
        /\ applied = SubSeq(C6_Order(C6_Units), 1, Len(applied))
        /\ pc = "forward" => stage = Len(applied) + 1
        /\ pc = "done" =>
              /\ Len(applied) = C6_Units + 3
              /\ applied[Len(applied) - 1] = <<"final_block">>
              /\ x.batch = input.x.batch
              /\ x.channels = call.num_classes
              /\ x.time = x_in.x.time
              /\ ~x_len.tuple
              /\ x_len = x_in.x_len

\* A dense-residual model with two units returned for a batch of two.
C6_Witness ==
    /\ pc = "done"
    /\ call.fn = "Jasper" /\ call.use_dr
    /\ Len(applied) = 5
    /\ x.batch = 2 /\ x.channels = 3
    /\ x_in.x.channels # x.channels

\* ---------------------------------------------------------------- C7
\* C7: for every channel count C and group count g dividing C, the channel
\* shuffle permutes the channels (each output channel is exactly one input
\* channel, every input channel is used, and the channel's values stay at
\* their batch and time index), and the shuffle with g groups followed by the
\* shuffle with C / g groups restores the original tensor.
C7_Sources(out, in, c2) ==
    { c \in 1..in.channels :
        \A b \in 1..in.batch : out.val[b][c2] = in.val[b][c] }

C7_IsChannelPermutation(out, in) ==
    /\ out.batch = in.batch /\ out.channels = in.channels /\ out.time = in.time
    /\ \A c2 \in 1..out.channels : Cardinality(C7_Sources(out, in, c2)) = 1
    /\ \A c \in 1..in.channels :
          \E c2 \in 1..out.channels : c \in C7_Sources(out, in, c2)

C7_ShuffleBijection ==
    lay.kind = "ChannelShuffle1d" =>
        /\ lay.args.in_channels % lay.args.groups = 0 =>
              /\ lay.pc \notin {"raised", "failed"}
              /\ lay.pc = "returned" => Len(lay.xs) = 2
        /\ \A j \in 1..Len(lay.xs) :
              C7_IsChannelPermutation(lay.xs[j],
                                      IF j = 1 THEN lay.x0 ELSE lay.xs[j - 1])
        /\ Len(lay.xs) = 2 => lay.xs[2] = lay.x0

\* Six channels shuffled in 2 groups (which moved channels) and then in 3
\* groups, back to the original order.
C7_Witness ==
    /\ lay.kind = "ChannelShuffle1d" /\ lay.pc = "returned"
    /\ lay.args.in_channels = 6 /\ lay.args.groups = 2
    /\ lay.x0.batch = 2 /\ lay.x0.time = 2
    /\ lay.xs[1] # lay.x0
    /\ lay.xs[2] = lay.x0

\* ---------------------------------------------------------------- C8
\* C8: constructing a channel shuffle raises ValueError and yields no layer
\* when the channel count is not divisible by the group count, and yields the
\* layer whenever it is; no other condition makes the layer-construction code
\* of the model raise.
C8_ShuffleValidation ==
    /\ (lay.kind = "ChannelShuffle1d" /\ lay.pc \in {"built", "raised"}) =>
          IF lay.args.in_channels % lay.todo[1] # 0
          THEN lay.pc = "raised" /\ lay.layer = ValueError("ChannelShuffle1d")
          ELSE /\ lay.pc = "built"
               /\ lay.layer.cls = "ChannelShuffle1d"
               /\ lay.layer.groups = lay.todo[1]
    /\ (lay.pc = "raised" /\ lay.layer.by # "torch.nn.Conv1d") =>
          /\ lay.layer = ValueError("ChannelShuffle1d")
          /\ \/ /\ lay.kind = "ChannelShuffle1d"
                /\ lay.args.in_channels % lay.todo[1] # 0
             \/ /\ lay.kind = "DwsConvBlock1d"
                /\ lay.args.groups > 1
                /\ lay.args.out_channels % lay.args.groups # 0

\* A shuffle of 3 channels in 2 groups was refused.
C8_Witness ==
    /\ lay.kind = "ChannelShuffle1d" /\ lay.pc = "raised"
    /\ lay.args.in_channels = 3 /\ lay.todo[1] = 2
    /\ lay.layer.cls = "ValueError"

\* ---------------------------------------------------------------- C9
\* C9: for a version "BxR" get_jasper passes repeat = R and three lists of
\* length 3 + 5 * (B // 5), whose entry i is the table entry of stage 1 for
\* i = 1, of the middle stage 2 + (i - 2) // (B // 5) for the next
\* 5 * (B // 5) entries, and of stages 7 and 8 for the last two; the model has
\* 5 * (B // 5) units, unit j built from entry j + 1 with R body blocks.
C9_Blocks(version) ==
    CASE version = <<"5", "x", "3">> -> 5
      [] version = <<"1", "0", "x", "4">> -> 10
      [] version = <<"1", "0", "x", "5">> -> 10
      [] version = <<"3", "x", "2">> -> 3
      [] version = <<"7", "x", "1">> -> 7

C9_Repeat(version) ==
    CASE version = <<"5", "x", "3">> -> 3
      [] version = <<"1", "0", "x", "4">> -> 4
      [] version = <<"1", "0", "x", "5">> -> 5
      [] version = <<"3", "x", "2">> -> 2
      [] version = <<"7", "x", "1">> -> 1

\* the table index of entry i of a list of length 3 + 5 * m
C9_Stage(i, m) ==
    IF i = 1 THEN 1
    ELSE IF i > 1 + 5 * m THEN 7 + (i - (2 + 5 * m))
    ELSE 2 + (i - 2) \div m

C9_ListFrom(list, table, m) ==
    /\ Len(list) = 3 + 5 * m
    /\ \A i \in 1..Len(list) : list[i] = table[C9_Stage(i, m)]

C9_UnitFrom(unit, s, R) ==
    /\ unit.cls = "JasperUnit"
    /\ Len(unit.body) = R
    /\ unit.dropout.p = dropout_rates_per_stage[s]
    /\ \A h \in 1..R :
          /\ unit.body[h].conv.out_channels = channels_per_stage[s]
          /\ unit.body[h].conv.kernel_size = kernel_sizes_per_stage[s]

C9_Args(a, m, R) ==
    /\ a.repeat = R
    /\ C9_ListFrom(a.channels, channels_per_stage, m)
    /\ C9_ListFrom(a.kernel_sizes, kernel_sizes_per_stage, m)
    /\ C9_ListFrom(a.dropout_rates, dropout_rates_per_stage, m)

C9_Model(n, m, R) ==
    /\ n.cls = "Jasper"
    /\ Len(n.features) = 2 + 5 * m
    /\ n.features[1].module.conv.out_channels = channels_per_stage[1]
    /\ n.features[1].module.conv.kernel_size = kernel_sizes_per_stage[1]
    /\ \A j \in 1..(5 * m) :
          C9_UnitFrom(n.features[1 + j].module, C9_Stage(1 + j, m), R)
    /\ n.features[2 + 5 * m].module.cls = "JasperFinalBlock"
    /\ n.features[2 + 5 * m].module.conv1.conv.kernel_size = kernel_sizes_per_stage[7]
    /\ n.features[2 + 5 * m].module.conv2.conv.out_channels = channels_per_stage[8]

C9_VersionExpansion ==
    (call.fn = "get_jasper" /\ pc # "new") =>
        /\ C9_Args(JasperArgs(ParseVersion(call.version)),
                   C9_Blocks(call.version) \div 5, C9_Repeat(call.version))
        /\ C9_Model(net, C9_Blocks(call.version) \div 5, C9_Repeat(call.version))

\* "10x4" has been built: twelve children, units 1 and 2 from stage 2 and
\* unit 3 from stage 3, four blocks a unit.
C9_Witness ==
    /\ call.fn = "get_jasper" /\ call.version = <<"1", "0", "x", "4">>
    /\ pc = "forward" /\ stage = 1
    /\ Len(net.features) = 12
    /\ net.features[2].module.body[1].conv.kernel_size = 11
    /\ net.features[3].module.body[1].conv.kernel_size = 11
    /\ net.features[4].module.body[1].conv.kernel_size = 13
    /\ Len(net.features[4].module.body) = 4

\* ---------------------------------------------------------------- C10
\* C10: once a Jasper model is constructed, every convolution module it
\* contains (the masked convolutions and the output convolution) has been
\* re-initialised by _init_params: Kaiming-uniform weight, and zero bias where
\* it has a bias.
C10_Reinitialised(m) ==
    IsInstance(m.cls, "_ConvNd") =>
        /\ m.winit = "kaiming_uniform"
        /\ m.bias => m.binit = "zero"

C10_ChildReinitialised(mods) ==
    \A j \in 1..Len(mods) : C10_Reinitialised(mods[j])

C10_EveryConvReinitialised ==
    (pc # "new" /\ pc # "idle" /\ net.cls = "Jasper") =>
        /\ \A i \in 1..Len(net.features) :
              C10_ChildReinitialised(ChildModules(net.features[i].module))
        /\ C10_Reinitialised(net.output)

\* ---------------------------------------------------------------- C11
\* C11: a unit built with repeat = R has R body blocks, blocks 1..R-1 with
\* activation and the unit's dropout rate, block R with neither; its identity
\* blocks are 1x1 masked projections without activation or dropout, fed the
\* unit's input; the unit returns dropout-if-any(ReLU(body + identity)) and
\* the body's length.
C11_Args == IF call.fn = "Jasper" THEN call ELSE JasperArgs(ParseVersion(call.version))

C11_NoDropout(m) == ~m.use_dropout /\ m.dropout = None

C11_HasDropout(m, rate) ==
    IF rate = 0 THEN C11_NoDropout(m)
    ELSE m.use_dropout /\ m.dropout = [cls |-> "Dropout", p |-> rate]

C11_BodyBlock(blk, h, R, rate) ==
    IF h < R
    THEN blk.activate /\ blk.activ = [cls |-> "ReLU"] /\ C11_HasDropout(blk, rate)
    ELSE ~blk.activate /\ blk.activ = None /\ C11_NoDropout(blk)

C11_Projection(blk) ==
    /\ blk.cls = "MaskConvBlock1d"
    /\ blk.conv.cls = "MaskConv1d" /\ blk.conv.use_mask
    /\ blk.conv.kernel_size = 1 /\ blk.conv.stride = 1 /\ blk.conv.padding = 0
    /\ ~blk.activate /\ blk.activ = None /\ C11_NoDropout(blk)

C11_IdentityBlocks(u) == IF u.use_dr THEN u.identity_block.modules ELSE <<u.identity_block>>

C11_Structure(u, R, rate) ==
    /\ Len(u.body) = R
    /\ \A h \in 1..R : C11_BodyBlock(u.body[h], h, R, rate)
    /\ \A i \in 1..Len(C11_IdentityBlocks(u)) : C11_Projection(C11_IdentityBlocks(u)[i])
    /\ u.activ = [cls |-> "ReLU"]
    /\ C11_HasDropout(u, rate)

\* The log of the unit: the identity convolutions, each fed one accumulated
\* input (the last one the unit's own input), then the body's, the first of
\* them fed the unit's input.
C11_Sources(u, xin, log, k) ==
    /\ Len(log) > k
    /\ \A i \in 1..k : log[i].conv = C11_IdentityBlocks(u)[i].conv
    /\ log[k].pre = xin.x /\ log[k].len = xin.x_len.len
    /\ log[k + 1].pre = xin.x /\ log[k + 1].len = xin.x_len.len
    /\ x_len.len = log[Len(log)].out_len

C11_Sum(out, sum) == sum.ok /\ out = ReLU(sum.x)

C11_Combined(out, outlen, idn, body) ==
    /\ idn.ok /\ body.ok
    /\ outlen = body.x_len
    /\ C11_Sum(out, Add(body.x, idn.x))

C11_Identity(u, xin) ==
    IF u.use_dr
    THEN DenseIdentity(DualPathParallelConcurent_forward(
             u.identity_block.modules, 1, xin.x_len.y \o <<xin.x>>,
             xin.x_len.y_len \o <<xin.x_len.len>>))
    ELSE MaskConvBlock1d_forward(u.identity_block, xin.x, xin.x_len.len)

C11_Unit(u, s) ==
    /\ C11_Structure(u, C11_Args.repeat, C11_Args.dropout_rates[s])
    /\ C11_Sources(u, x_in, conv_log, Len(C11_IdentityBlocks(u)))
    /\ C11_Combined(x, x_len.len, C11_Identity(u, x_in),
                    DualPathSequential_forward(u.body, 1, x_in.x, x_in.x_len.len))

C11_UnitApplied ==
    pc = "forward" /\ stage > 2 /\ stage <= Len(net.features)

C11_UnitStructureAndOrder ==
    C11_UnitApplied => C11_Unit(net.features[stage - 1].module, stage - 1)

\* A unit of two body blocks with dropout returned for a batch with padding
\* where body + identity is negative somewhere and the output is 0 there.
C11_Negative(sum) ==
    \E b \in 1..x.batch : \E i \in 1..x.time : sum.x.val[b][i] < 0 /\ x.val[b][i] = 0

C11_WitnessSum(idn, body) == C11_Negative(Add(body.x, idn.x))

C11_WitnessAt(u) ==
    /\ Len(u.body) = 2 /\ u.use_dropout
    /\ C11_WitnessSum(C11_Identity(u, x_in),
                      DualPathSequential_forward(u.body, 1, x_in.x, x_in.x_len.len))

C11_Witness ==
    /\ C11_UnitApplied
    /\ call.fn = "Jasper"
    /\ C11_WitnessAt(net.features[stage - 1].module)

\* ---------------------------------------------------------------- C12
\* C12: in dense-residual mode, after unit k the forwarded accumulator is the
\* list of the inputs of units 1..k with their lengths, in order: the entries
\* unit k received, unchanged, and unit k's own input last; unit k has k
\* identity blocks whose input channels are those of the k entries in order,
\* and its identity is the elementwise sum of the k projections.
RECURSIVE C12_Before(_)
C12_Apply(j, p) ==
    IF ~p.ok THEN p ELSE Child_forward(net.features[j].module, p.x, p.x_len)

\* what Jasper.forward hands child j: the input run through children 1..j-1
C12_Before(j) ==
    IF j = 1
    THEN [ok |-> TRUE, x |-> input.x, x_len |-> LenVec(input.x_len), log |-> <<>>]
    ELSE C12_Apply(j - 1, C12_Before(j - 1))

C12_EntryIs(j, p) ==
    /\ p.ok
    /\ x_len.y[j] = p.x
    /\ x_len.y_len[j] = p.x_len.len

C12_Accumulator(k) ==
    /\ x_len.tuple
    /\ Len(x_len.y) = k /\ Len(x_len.y_len) = k
    /\ x_len.y = x_in.x_len.y \o <<x_in.x>>
    /\ x_len.y_len = x_in.x_len.y_len \o <<x_in.x_len.len>>
    /\ \A j \in 1..k : C12_EntryIs(j, C12_Before(j + 1))

C12_Blocks(u, k) ==
    /\ Len(u.identity_block.modules) = k
    /\ \A j \in 1..k :
          u.identity_block.modules[j].conv.in_channels = x_len.y[j].channels

\* the projection of entry j by identity block j
C12_Projection(u, j) ==
    MaskConvBlock1d_forward(u.identity_block.modules[j], x_len.y[j], x_len.y_len[j])

RECURSIVE C12_SumAt(_, _, _, _)
\* the sum over projections j..k at sample b, time i (saturating as tensors do)
C12_SumAt(ps, b, i, j) ==
    IF j = Len(ps) THEN ps[j].x.val[b][i]
    ELSE Clip(ps[j].x.val[b][i] + C12_SumAt(ps, b, i, j + 1))

C12_SumOf(ps) ==
    Tensor(ps[1].x.batch, ps[1].x.channels, ps[1].x.time,
           [b \in 1..ps[1].x.batch |-> [i \in 1..ps[1].x.time |->
               C12_SumAt(ps, b, i, 1)]])

C12_Output(body, identity) == body.ok /\ C11_Sum(x, Add(body.x, identity))

C12_IdentityIsSum(u, ps) ==
    /\ \A j \in 1..Len(ps) : ps[j].ok /\ SameShape(ps[j].x, ps[1].x)
    /\ C12_Output(DualPathSequential_forward(u.body, 1, x_in.x, x_in.x_len.len),
                  C12_SumOf(ps))

C12_Unit(u, k) ==
    /\ C12_Accumulator(k)
    /\ C12_Blocks(u, k)
    /\ C12_IdentityIsSum(u, [j \in 1..k |-> C12_Projection(u, j)])

C12_DenseAccumulator ==
    (C11_UnitApplied /\ net.features[stage - 1].module.use_dr)
        => C12_Unit(net.features[stage - 1].module, stage - 2)

\* The second unit of a dense-residual model returned: two entries of
\* different channel counts, both projections contributing to the identity.
C12_Contributes(p) == \E b \in 1..p.x.batch : \E i \in 1..p.x.time : p.x.val[b][i] > 0

C12_Witness ==
    /\ C11_UnitApplied /\ stage = 4
    /\ net.features[3].module.use_dr
    /\ Len(x_len.y) = 2
    /\ x_len.y[1].channels # x_len.y[2].channels
    /\ x_len.y[1] # x_in.x
    /\ x_len.y[2] = x_in.x
    /\ C12_Contributes(C12_Projection(net.features[3].module, 1))
    /\ C12_Contributes(C12_Projection(net.features[3].module, 2))

\* ---------------------------------------------------------------- C13
\* C13: after the init block, a convolution with padding kernel // 2 (unit
\* body blocks, the final block's second convolution) keeps the time dimension
\* and every valid length when its kernel is odd and lengthens both by one
\* when it is even; the final block's first convolution (dilation 2) keeps
\* them for every kernel.  So a unit of odd kernel returns, with body and
\* identity of the input's time dimension, and what a stage of odd kernels
\* returns has the time dimension and lengths it received; in a unit of even
\* kernel the body after h blocks is h longer than the identity path.
C13_Grow(k) == IF k % 2 = 0 THEN 1 ELSE 0

\* log entry e maps time dimension and lengths n to n + d
C13_Maps(e, d) ==
    /\ e.ok
    /\ e.out_time = e.pre.time + d
    /\ \A b \in 1..Len(e.len) : e.out_len[b] = e.len[b] + d

C13_Conv(e) ==
    IF e.conv.dilation = 2 THEN C13_Maps(e, 0)
    ELSE C13_Maps(e, C13_Grow(e.conv.kernel_size))

C13_PerBlock(blk) == IF blk.cls = "DwsConvBlock1d" THEN 2 ELSE 1

\* stage output against stage input, d longer
C13_StageMaps(d) ==
    /\ x.time = x_in.x.time + d
    /\ \A b \in 1..x.batch : x_len.len[b] = x_in.x_len.len[b] + d

\* the body's blocks ran: after block h the time dimension and the lengths
\* are h * d above the unit's input, the identity path at the input's
C13_Body(u, log, k, R, d) ==
    /\ Len(log) = k + R * C13_PerBlock(u.body[1])
    /\ log[k].out_time = x_in.x.time
    /\ log[k].out_len = x_in.x_len.len
    /\ \A h \in 1..R :
          /\ log[k + h * C13_PerBlock(u.body[1])].out_time = x_in.x.time + h * d
          /\ \A b \in 1..x_in.x.batch :
                log[k + h * C13_PerBlock(u.body[1])].out_len[b]
                    = x_in.x_len.len[b] + h * d

\* the dense identity could not be stacked: earlier units lengthened their
\* outputs, the accumulated entries differ in time dimension
C13_Unstackable(u, log, k) ==
    /\ u.use_dr /\ Len(log) = k /\ pc = "error"
    /\ \E j \in 1..k : log[j].out_time # log[k].out_time

C13_UnitPaths(u, log, k, ks, R) ==
    IF ks % 2 = 1
    THEN C13_Body(u, log, k, R, 0) /\ pc = "forward" /\ C13_StageMaps(0)
    ELSE \/ /\ C13_Body(u, log, k, R, 1)
            /\ log[Len(log)].out_time # log[k].out_time
            /\ pc = "error" <=> x_in.x.time # 1
         \/ C13_Unstackable(u, log, k)

C13_Unit(u, ks) ==
    C13_UnitPaths(u, conv_log, Len(C11_IdentityBlocks(u)), ks, Len(u.body))

C13_Final(f, log, k1, k2) ==
    pc = "forward" =>
    /\ Len(log) = C13_PerBlock(f.conv1) + 1
    /\ log[1].conv.kernel_size = k1 /\ log[1].conv.dilation = 2
    /\ log[1].conv.padding = k1 - 1
    /\ log[Len(log)].conv.kernel_size = k2
    /\ log[Len(log)].conv.padding = k2 \div 2
    /\ C13_StageMaps(C13_Grow(k2))

C13_Stage(m, s, ks) ==
    /\ \A j \in 1..Len(conv_log) : C13_Conv(conv_log[j])
    /\ IF m.cls = "JasperUnit" THEN C13_Unit(m, ks[s])
       ELSE C13_Final(m, conv_log, ks[s], ks[s + 1])

C13_LengthPreservation ==
    (pc \in {"forward", "error"} /\ stage > 2 /\ stage <= Len(net.features) + 1)
        => C13_Stage(net.features[stage - 1].module, stage - 1,
                     C11_Args.kernel_sizes)

\* A unit of jasper10x5 (kernel 11, five body blocks) returned the test's odd
\* input with its time dimension and its valid length, shorter by one, kept.
C13_Witness ==
    /\ call.fn = "get_jasper" /\ call.version = <<"1", "0", "x", "5">>
    /\ pc = "forward" /\ stage = 3
    /\ input.x.time = TestSeqLenMin + 1
    /\ Len(conv_log) = 6
    /\ conv_log[6].conv.kernel_size = 11
    /\ x.time = x_in.x.time /\ x.time = 31
    /\ x_len.len = x_in.x_len.len /\ x_len.len = <<30>>

=============================================================================
